---- MODULE Spec2Model ----
(***************************************************************************)
(* Manual virtual dispatch over Figure / Rect / Circle (src/src/main.c).   *)
(*                                                                         *)
(* The model is a small abstract machine for the C program: a heap of      *)
(* malloc'ed cells laid out as the structs are, a call stack of frames     *)
(* holding the current source line and the locals, the two static vtables, *)
(* the return-value register and the bytes written to standard output.     *)
(* Every statement of the source is one action, named by its function and  *)
(* source line.  Two programs run on the machine: the driver main (SpecMain)*)
(* and an arbitrary client of rect_new, circle_new and call_stuff (Spec).   *)
(***************************************************************************)
EXTENDS Integers, Sequences, FiniteSets, TLC

\* Number of cells malloc can hand out before it is exhausted, and of
\* constructions the arbitrary client asks for.
MaxObjs == 2
\* Number of calls the arbitrary client makes to the three public functions.
MaxCalls == 4

\* Range of the C type int of the fields perimeter and radius.
INT_MAX == 2147483647
INT_MIN == (-INT_MAX) - 1

\* The null pointer, which malloc returns when it fails.
NULL == 0
\* The addresses malloc can return on success.
Addr == 1..MaxObjs
\* The int arguments the arbitrary client passes to the constructors.
Vals == {INT_MIN, 0, INT_MAX}

VARIABLES heap, rect_vtable, circle_vtable, stack, retval, stdout, status, ub, log

vars == <<heap, rect_vtable, circle_vtable, stack, retval, stdout, status, ub, log>>

-----------------------------------------------------------------------------
(* printf: the two format strings and the %d conversion.                   *)

RectFormat == <<"D", "r", "a", "w", "i", "n", "g", " ", "R", "e", "c", "t", " ", "w", "i", "t", "h", " ", "p", "e", "r", "i", "m", "e", "t", "e", "r", ":", " ">>
CircleFormat == <<"D", "r", "a", "w", "i", "n", "g", " ", "C", "i", "r", "c", "l", "e", " ", "w", "i", "t", "h", " ", "r", "a", "d", "i", "u", "s", ":", " ">>
Newline == <<"\n">>

DigitChar(d) == <<"0", "1", "2", "3", "4", "5", "6", "7", "8", "9">>[d + 1]

\* Decimal digits of n <= 0, most significant first, without the sign.  The
\* quotient and remainder are C's (truncating), computed on the negative side
\* so that INT_MIN needs no negation.
RECURSIVE NegDigits(_)
NegDigits(n) ==
    LET r == n % 10
        d == (10 - r) % 10
        q == (n \div 10) + (IF r = 0 THEN 0 ELSE 1)
    IN  IF q = 0 THEN <<DigitChar(d)>> ELSE Append(NegDigits(q), DigitChar(d))

\* The conversion %d of an int: an optional minus sign and the decimal digits.
FormatD(n) == IF n < 0 THEN <<"-">> \o NegDigits(n) ELSE NegDigits(-n)

\* printf(fmt "%d\n", n) appended to the stream.
Printf(stream, fmt, n) == stream \o fmt \o FormatD(n) \o Newline

-----------------------------------------------------------------------------
(* Memory: struct layout, loads and stores.                                *)

\* A cell holds the fields that have been written since malloc returned it:
\* "base" is the Figure at offset 0 (struct Figure { FigureVTable vtable; }),
\* "member" is the int that follows it (Rect.perimeter and Circle.radius sit
\* at the same offset, which is what makes the pointer casts work).
Uninitialized == << >>

FigureVTable(f) == [draw |-> f]
Figure(vt) == [vtable |-> vt]

\* p->field = v.  A store through NULL that does not trap lands in page 0.
Store(h, p, field, v) ==
    IF p \in DOMAIN h THEN [h EXCEPT ![p] = (field :> v) @@ @]
                      ELSE h @@ (p :> (field :> v))

\* ((Rect*)p)->perimeter and ((Circle*)p)->radius.
RectPerimeter(h, p) == h[p]["member"]
CircleRadius(h, p) == h[p]["member"]
\* p->vtable.draw through the base type.
FigureDraw(h, p) == h[p]["base"].vtable.draw

-----------------------------------------------------------------------------
(* The call stack.                                                         *)

\* A frame: the function, the source line about to execute, its locals and
\* parameters, and two history fields: the argument it was called with and
\* the length of stdout at the call.
Frame(f, l, a, vs) == [fn |-> f, line |-> l, in |-> a, mark |-> Len(stdout), locals |-> vs]

Top == stack[Len(stack)]
Running(f, l) ==
    /\ status.state = "running"
    /\ stack # << >>
    /\ Top.fn = f
    /\ Top.line = l

Goto(l) == [stack EXCEPT ![Len(stack)].line = l]
SetLocal(name, v, l) ==
    [stack EXCEPT ![Len(stack)].line = l, ![Len(stack)].locals = (name :> v) @@ @]
\* Call f(a): the caller resumes at line back, f starts at line entry.
Call(f, entry, a, vs, back) == Append(Goto(back), Frame(f, entry, a, vs))
Pop == SubSeq(stack, 1, Len(stack) - 1)

NoValue == [set |-> FALSE, val |-> 0]
Value(v) == [set |-> TRUE, val |-> v]

Event(f, a, r, o) == [op |-> f, arg |-> a, ret |-> r, out |-> o]

-----------------------------------------------------------------------------
(* Initial states.                                                         *)

Statics ==
    /\ rect_vtable = FigureVTable("draw_rect")
    /\ circle_vtable = FigureVTable("draw_circle")

Machine ==
    /\ heap = << >>
    /\ Statics
    /\ retval = NoValue
    /\ stdout = << >>
    /\ status = [state |-> "running"]
    /\ ub = FALSE
    /\ log = << >>

\* The process at the entry of main.
InitMain ==
    /\ Machine
    /\ stack = <<[fn |-> "main", line |-> 103, in |-> 0, mark |-> 0, locals |-> << >>]>>

\* An arbitrary client about to use the three public functions.
Init ==
    /\ Machine
    /\ stack = <<[fn |-> "client", line |-> 0, in |-> 0, mark |-> 0, locals |-> << >>]>>

-----------------------------------------------------------------------------
(* malloc and the constructors.                                            *)

Free == Addr \ DOMAIN heap


\* Variant: the allocator hands out a cell that may still be in use.
Malloc_reuse(name, l) ==
    \E p \in Addr \cup {NULL} :
        /\ heap' = IF p = NULL THEN heap
                   ELSE [q \in DOMAIN heap \cup {p} |-> IF q = p THEN Uninitialized ELSE heap[q]]
        /\ stack' = SetLocal(name, p, l)

\* malloc(sizeof ...): any free cell, its contents indeterminate, or NULL.
\* The result is stored in the local `name` and control moves to line l.
Malloc(name, l) ==
    \E p \in Free \cup {NULL} :
        /\ heap' = IF p = NULL THEN heap ELSE heap @@ (p :> Uninitialized)
        /\ stack' = SetLocal(name, p, l)

\* Rect* rect = malloc(sizeof(Rect));
rect_new_80 ==
    /\ Running("rect_new", 80)
    /\ Malloc("rect", 81)
    /\ UNCHANGED <<rect_vtable, circle_vtable, retval, stdout, status, ub, log>>


\* Variant: negative perimeters are clamped to 0.
rect_new_81_clamped ==
    /\ Running("rect_new", 81)
    /\ heap' = Store(heap, Top.locals["rect"], "member",
                     IF Top.locals["perimeter"] < 0 THEN 0 ELSE Top.locals["perimeter"])
    /\ ub' = (ub \/ Top.locals["rect"] = NULL)
    /\ stack' = Goto(82)
    /\ UNCHANGED <<rect_vtable, circle_vtable, retval, stdout, status, log>>

\* Variant: if (!rect) return NULL; before the store.
rect_new_81_checked ==
    /\ Running("rect_new", 81)
    /\ IF Top.locals["rect"] = NULL
       THEN /\ retval' = Value(NULL)
            /\ log' = Append(log, Event("rect_new", Top.in, NULL, << >>))
            /\ stack' = Pop
            /\ UNCHANGED heap
       ELSE /\ heap' = Store(heap, Top.locals["rect"], "member", Top.locals["perimeter"])
            /\ stack' = Goto(82)
            /\ UNCHANGED <<retval, log>>
    /\ UNCHANGED <<rect_vtable, circle_vtable, stdout, status, ub>>

\* rect->perimeter = perimeter;
rect_new_81 ==
    /\ Running("rect_new", 81)
    /\ heap' = Store(heap, Top.locals["rect"], "member", Top.locals["perimeter"])
    /\ ub' = (ub \/ Top.locals["rect"] = NULL)
    /\ stack' = Goto(82)
    /\ UNCHANGED <<rect_vtable, circle_vtable, retval, stdout, status, log>>

\* rect->base.vtable = rect_vtable;   (the table is copied by value)
rect_new_82 ==
    /\ Running("rect_new", 82)
    /\ heap' = Store(heap, Top.locals["rect"], "base", Figure(rect_vtable))
    /\ ub' = (ub \/ Top.locals["rect"] = NULL)
    /\ stack' = Goto(87)
    /\ UNCHANGED <<rect_vtable, circle_vtable, retval, stdout, status, log>>

\* return (Figure*)rect;
rect_new_87 ==
    /\ Running("rect_new", 87)
    /\ retval' = Value(Top.locals["rect"])
    /\ log' = Append(log, Event("rect_new", Top.in, Top.locals["rect"], << >>))
    /\ stack' = Pop
    /\ UNCHANGED <<heap, rect_vtable, circle_vtable, stdout, status, ub>>

rect_new == rect_new_80 \/ rect_new_81 \/ rect_new_82 \/ rect_new_87

\* Circle* circle = malloc(sizeof(Circle));
circle_new_91 ==
    /\ Running("circle_new", 91)
    /\ Malloc("circle", 92)
    /\ UNCHANGED <<rect_vtable, circle_vtable, retval, stdout, status, ub, log>>


\* Variant: the radius is zeroed instead of set.
circle_new_92_zero ==
    /\ Running("circle_new", 92)
    /\ heap' = Store(heap, Top.locals["circle"], "member", 0)
    /\ ub' = (ub \/ Top.locals["circle"] = NULL)
    /\ stack' = Goto(93)
    /\ UNCHANGED <<rect_vtable, circle_vtable, retval, stdout, status, log>>

\* circle->radius = radius;
circle_new_92 ==
    /\ Running("circle_new", 92)
    /\ heap' = Store(heap, Top.locals["circle"], "member", Top.locals["radius"])
    /\ ub' = (ub \/ Top.locals["circle"] = NULL)
    /\ stack' = Goto(93)
    /\ UNCHANGED <<rect_vtable, circle_vtable, retval, stdout, status, log>>


\* Variant: the Circle is given the Rect's table.
circle_new_93_rect_table ==
    /\ Running("circle_new", 93)
    /\ heap' = Store(heap, Top.locals["circle"], "base", Figure(rect_vtable))
    /\ ub' = (ub \/ Top.locals["circle"] = NULL)
    /\ stack' = Goto(94)
    /\ UNCHANGED <<rect_vtable, circle_vtable, retval, stdout, status, log>>

\* circle->base.vtable = circle_vtable;
circle_new_93 ==
    /\ Running("circle_new", 93)
    /\ heap' = Store(heap, Top.locals["circle"], "base", Figure(circle_vtable))
    /\ ub' = (ub \/ Top.locals["circle"] = NULL)
    /\ stack' = Goto(94)
    /\ UNCHANGED <<rect_vtable, circle_vtable, retval, stdout, status, log>>

\* return (Figure*)circle;
circle_new_94 ==
    /\ Running("circle_new", 94)
    /\ retval' = Value(Top.locals["circle"])
    /\ log' = Append(log, Event("circle_new", Top.in, Top.locals["circle"], << >>))
    /\ stack' = Pop
    /\ UNCHANGED <<heap, rect_vtable, circle_vtable, stdout, status, ub>>

circle_new == circle_new_91 \/ circle_new_92 \/ circle_new_93 \/ circle_new_94

-----------------------------------------------------------------------------
(* Dispatch and the two draw functions.                                    *)

\* The first line and the receiver's local of the function a draw slot holds.
EntryLine(f) == IF f = "draw_rect" THEN 55 ELSE 61


\* Variant: static dispatch, draw_rect(fig), whatever the slot holds.
call_stuff_99_static ==
    /\ Running("call_stuff", 99)
    /\ LET fig == Top.locals["fig"]
       IN  stack' = Call("draw_rect", 55, fig, "self" :> fig, 100)
    /\ UNCHANGED <<heap, rect_vtable, circle_vtable, retval, stdout, status, ub, log>>

\* fig->vtable.draw(fig);
call_stuff_99 ==
    /\ Running("call_stuff", 99)
    /\ LET fig == Top.locals["fig"]
           f == FigureDraw(heap, fig)
       IN  stack' = Call(f, EntryLine(f), fig, "self" :> fig, 100)
    /\ ub' = (ub \/ Top.locals["fig"] = NULL)
    /\ UNCHANGED <<heap, rect_vtable, circle_vtable, retval, stdout, status, log>>

\* } of call_stuff
call_stuff_100 ==
    /\ Running("call_stuff", 100)
    /\ retval' = NoValue
    /\ log' = Append(log, Event("call_stuff", Top.in, NULL,
                                SubSeq(stdout, Top.mark + 1, Len(stdout))))
    /\ stack' = Pop
    /\ UNCHANGED <<heap, rect_vtable, circle_vtable, stdout, status, ub>>

call_stuff == call_stuff_99 \/ call_stuff_100

\* Rect* rect = (Rect*)self;
draw_rect_55 ==
    /\ Running("draw_rect", 55)
    /\ stack' = SetLocal("rect", Top.locals["self"], 57)
    /\ UNCHANGED <<heap, rect_vtable, circle_vtable, retval, stdout, status, ub, log>>


\* Variant: the Circle's format string in draw_rect.
draw_rect_57_circle_text ==
    /\ Running("draw_rect", 57)
    /\ stdout' = Printf(stdout, CircleFormat, RectPerimeter(heap, Top.locals["rect"]))
    /\ ub' = (ub \/ Top.locals["rect"] = NULL)
    /\ stack' = Goto(58)
    /\ UNCHANGED <<heap, rect_vtable, circle_vtable, retval, status, log>>

\* printf("Drawing Rect with perimeter: %d\n", rect->perimeter);
draw_rect_57 ==
    /\ Running("draw_rect", 57)
    /\ stdout' = Printf(stdout, RectFormat, RectPerimeter(heap, Top.locals["rect"]))
    /\ ub' = (ub \/ Top.locals["rect"] = NULL)
    /\ stack' = Goto(58)
    /\ UNCHANGED <<heap, rect_vtable, circle_vtable, retval, status, log>>

\* } of draw_rect
draw_rect_58 ==
    /\ Running("draw_rect", 58)
    /\ stack' = Pop
    /\ UNCHANGED <<heap, rect_vtable, circle_vtable, retval, stdout, status, ub, log>>

draw_rect == draw_rect_55 \/ draw_rect_57 \/ draw_rect_58

\* Circle* circle = (Circle*)self;
draw_circle_61 ==
    /\ Running("draw_circle", 61)
    /\ stack' = SetLocal("circle", Top.locals["self"], 62)
    /\ UNCHANGED <<heap, rect_vtable, circle_vtable, retval, stdout, status, ub, log>>


\* Variant: drawing resets the radius.
draw_circle_62_consume ==
    /\ Running("draw_circle", 62)
    /\ stdout' = Printf(stdout, CircleFormat, CircleRadius(heap, Top.locals["circle"]))
    /\ heap' = Store(heap, Top.locals["circle"], "member", 0)
    /\ ub' = (ub \/ Top.locals["circle"] = NULL)
    /\ stack' = Goto(63)
    /\ UNCHANGED <<rect_vtable, circle_vtable, retval, status, log>>

\* printf("Drawing Circle with radius: %d\n", circle->radius);
draw_circle_62 ==
    /\ Running("draw_circle", 62)
    /\ stdout' = Printf(stdout, CircleFormat, CircleRadius(heap, Top.locals["circle"]))
    /\ ub' = (ub \/ Top.locals["circle"] = NULL)
    /\ stack' = Goto(63)
    /\ UNCHANGED <<heap, rect_vtable, circle_vtable, retval, status, log>>

\* } of draw_circle
draw_circle_63 ==
    /\ Running("draw_circle", 63)
    /\ stack' = Pop
    /\ UNCHANGED <<heap, rect_vtable, circle_vtable, retval, stdout, status, ub, log>>

draw_circle == draw_circle_61 \/ draw_circle_62 \/ draw_circle_63

-----------------------------------------------------------------------------
(* Dereferencing the null pointer.                                         *)

\* The pointer the statement at the top of the stack dereferences, if any.
Dereferenced ==
    LET f == Top.fn
        l == Top.line
    IN  IF f = "rect_new" /\ l \in {81, 82} THEN {Top.locals["rect"]}
        ELSE IF f = "circle_new" /\ l \in {92, 93} THEN {Top.locals["circle"]}
        ELSE IF f = "call_stuff" /\ l = 99 THEN {Top.locals["fig"]}
        ELSE IF f = "draw_rect" /\ l = 57 THEN {Top.locals["rect"]}
        ELSE IF f = "draw_circle" /\ l = 62 THEN {Top.locals["circle"]}
        ELSE {}

\* No statement checks malloc's result; an access through NULL is undefined.
\* One outcome is that the access traps and the process is killed; the other,
\* in the statements' own actions, is that the access is performed.
Segfault ==
    /\ status.state = "running"
    /\ stack # << >>
    /\ NULL \in Dereferenced
    /\ status' = [state |-> "signalled"]
    /\ ub' = TRUE
    /\ UNCHANGED <<heap, rect_vtable, circle_vtable, stack, retval, stdout, log>>

Library == rect_new \/ circle_new \/ call_stuff \/ draw_rect \/ draw_circle \/ Segfault

-----------------------------------------------------------------------------
(* The driver.                                                             *)

\* Figure *rect = rect_new(10);   the call
main_103_call ==
    /\ Running("main", 103)
    /\ ~retval.set
    /\ stack' = Call("rect_new", 80, 10, "perimeter" :> 10, 103)
    /\ UNCHANGED <<heap, rect_vtable, circle_vtable, retval, stdout, status, ub, log>>

\* Figure *rect = rect_new(10);   the initialisation of rect
main_103_init ==
    /\ Running("main", 103)
    /\ retval.set
    /\ stack' = SetLocal("rect", retval.val, 104)
    /\ retval' = NoValue
    /\ UNCHANGED <<heap, rect_vtable, circle_vtable, stdout, status, ub, log>>


\* Variant: the call of call_stuff(rect) is left out.
main_104_skipped ==
    /\ Running("main", 104)
    /\ stack' = Goto(106)
    /\ UNCHANGED <<heap, rect_vtable, circle_vtable, retval, stdout, status, ub, log>>

\* call_stuff(rect);
main_104 ==
    /\ Running("main", 104)
    /\ stack' = Call("call_stuff", 99, Top.locals["rect"], "fig" :> Top.locals["rect"], 106)
    /\ UNCHANGED <<heap, rect_vtable, circle_vtable, retval, stdout, status, ub, log>>

\* Figure *circle = circle_new(8);   the call
main_106_call ==
    /\ Running("main", 106)
    /\ ~retval.set
    /\ stack' = Call("circle_new", 91, 8, "radius" :> 8, 106)
    /\ UNCHANGED <<heap, rect_vtable, circle_vtable, retval, stdout, status, ub, log>>

\* Figure *circle = circle_new(8);   the initialisation of circle
main_106_init ==
    /\ Running("main", 106)
    /\ retval.set
    /\ stack' = SetLocal("circle", retval.val, 107)
    /\ retval' = NoValue
    /\ UNCHANGED <<heap, rect_vtable, circle_vtable, stdout, status, ub, log>>


\* Variant: call_stuff(rect) a second time.
main_107_rect_again ==
    /\ Running("main", 107)
    /\ stack' = Call("call_stuff", 99, Top.locals["rect"], "fig" :> Top.locals["rect"], 109)
    /\ UNCHANGED <<heap, rect_vtable, circle_vtable, retval, stdout, status, ub, log>>

\* call_stuff(circle);
main_107 ==
    /\ Running("main", 107)
    /\ stack' = Call("call_stuff", 99, Top.locals["circle"], "fig" :> Top.locals["circle"], 109)
    /\ UNCHANGED <<heap, rect_vtable, circle_vtable, retval, stdout, status, ub, log>>

\* return 0;
main_109 ==
    /\ Running("main", 109)
    /\ status' = [state |-> "exited", code |-> 0]
    /\ stack' = Pop
    /\ UNCHANGED <<heap, rect_vtable, circle_vtable, retval, stdout, ub, log>>

main ==
    \/ main_103_call \/ main_103_init \/ main_104
    \/ main_106_call \/ main_106_init \/ main_107 \/ main_109

-----------------------------------------------------------------------------
(* An arbitrary client of the public functions.                            *)

\* The Figure* values the constructors have returned so far.
Figures == {log[i].ret : i \in {j \in 1..Len(log) : log[j].op \in {"rect_new", "circle_new"}}}

Calls == Len(log)
Constructed == Cardinality({i \in 1..Len(log) : log[i].op \in {"rect_new", "circle_new"}})

\* rect_new(p) for any int p
client_rect_new ==
    /\ Running("client", 0)
    /\ Calls < MaxCalls
    /\ Constructed < MaxObjs
    /\ \E p \in Vals : stack' = Call("rect_new", 80, p, "perimeter" :> p, 0)
    /\ retval' = NoValue
    /\ UNCHANGED <<heap, rect_vtable, circle_vtable, stdout, status, ub, log>>

\* circle_new(r) for any int r
client_circle_new ==
    /\ Running("client", 0)
    /\ Calls < MaxCalls
    /\ Constructed < MaxObjs
    /\ \E r \in Vals : stack' = Call("circle_new", 91, r, "radius" :> r, 0)
    /\ retval' = NoValue
    /\ UNCHANGED <<heap, rect_vtable, circle_vtable, stdout, status, ub, log>>

\* call_stuff(fig) for any Figure* a constructor returned
client_call_stuff ==
    /\ Running("client", 0)
    /\ Calls < MaxCalls
    /\ \E fig \in Figures : stack' = Call("call_stuff", 99, fig, "fig" :> fig, 0)
    /\ retval' = NoValue
    /\ UNCHANGED <<heap, rect_vtable, circle_vtable, stdout, status, ub, log>>

client == client_rect_new \/ client_circle_new \/ client_call_stuff

-----------------------------------------------------------------------------
(* Specifications.                                                         *)

Next == client \/ Library
Spec == Init /\ [][Next]_vars

NextMain == main \/ Library
SpecMain == InitMain /\ [][NextMain]_vars
\* The process is sequential and is always scheduled: it keeps executing
\* statements until it exits or is killed.
FairSpecMain == SpecMain /\ WF_vars(NextMain)

-----------------------------------------------------------------------------
(* Reading the history and the output stream.                              *)

IsCtor(e) == e.op \in {"rect_new", "circle_new"}
IsDraw(e) == e.op = "call_stuff"

\* The constructor calls that returned an instance, as positions of the log.
Constructions == {i \in 1..Len(log) : IsCtor(log[i]) /\ log[i].ret # NULL}
\* The instances: the non-null pointers the constructors have returned.
Instances == {log[i].ret : i \in Constructions}
\* The construction that returned instance p.
Birth(p) == log[CHOOSE i \in Constructions : log[i].ret = p]
\* The completed calls of call_stuff, oldest first.
Draws == SelectSeq(log, IsDraw)

\* The complete lines of a character stream, without their newlines.
RECURSIVE Lines(_)
Lines(s) ==
    IF \A i \in 1..Len(s) : s[i] # "\n" THEN << >>
    ELSE LET n == CHOOSE i \in 1..Len(s) : s[i] = "\n" /\ \A j \in 1..(i - 1) : s[j] # "\n"
         IN  <<SubSeq(s, 1, n - 1)>> \o Lines(SubSeq(s, n + 1, Len(s)))

HasPrefix(l, fmt) == Len(l) >= Len(fmt) /\ SubSeq(l, 1, Len(fmt)) = fmt
After(l, fmt) == SubSeq(l, Len(fmt) + 1, Len(l))

Digits == {"0", "1", "2", "3", "4", "5", "6", "7", "8", "9"}
DigitValue(c) ==
    CASE c = "0" -> 0 [] c = "1" -> 1 [] c = "2" -> 2 [] c = "3" -> 3 [] c = "4" -> 4
      [] c = "5" -> 5 [] c = "6" -> 6 [] c = "7" -> 7 [] c = "8" -> 8 [] c = "9" -> 9

\* A decimal numeral as a reader accepts it: an optional sign, then digits
\* with no leading zero.
IsNumeral(t) ==
    LET d == IF t # << >> /\ t[1] = "-" THEN Tail(t) ELSE t
    IN  /\ d # << >>
        /\ \A i \in 1..Len(d) : d[i] \in Digits
        /\ (Len(d) > 1 => d[1] # "0")
        /\ (d = <<"0">> => t = d)

\* The value of a digit string, negated (so that INT_MIN is in range).
RECURSIVE NegativeValue(_)
NegativeValue(d) ==
    IF d = << >> THEN 0
    ELSE NegativeValue(SubSeq(d, 1, Len(d) - 1)) * 10 - DigitValue(d[Len(d)])

NumeralValue(t) == IF t[1] = "-" THEN NegativeValue(Tail(t)) ELSE -NegativeValue(t)

IsRectLine(l) == HasPrefix(l, RectFormat) /\ IsNumeral(After(l, RectFormat))
IsCircleLine(l) == HasPrefix(l, CircleFormat) /\ IsNumeral(After(l, CircleFormat))

\* The numerals of the values used as arguments, written out.
Numeral(v) ==
    CASE v = INT_MIN -> <<"-", "2", "1", "4", "7", "4", "8", "3", "6", "4", "8">>
      [] v = 0 -> <<"0">>
      [] v = 8 -> <<"8">>
      [] v = 10 -> <<"1", "0">>
      [] v = INT_MAX -> <<"2", "1", "4", "7", "4", "8", "3", "6", "4", "7">>

\* A malloc has failed: a constructor holds a null pointer or has used one.
AllocationFailed ==
    \/ ub
    \/ \E i \in 1..Len(stack) :
          \/ stack[i].fn = "rect_new" /\ "rect" \in DOMAIN stack[i].locals
                                       /\ stack[i].locals["rect"] = NULL
          \/ stack[i].fn = "circle_new" /\ "circle" \in DOMAIN stack[i].locals
                                         /\ stack[i].locals["circle"] = NULL

Quiescent == Len(stack) <= 1

-----------------------------------------------------------------------------
(* Claims.                                                                 *)

ExpectedOutput ==
    <<"D", "r", "a", "w", "i", "n", "g", " ", "R", "e", "c", "t", " ", "w", "i", "t", "h", " ", "p", "e", "r", "i", "m", "e", "t", "e", "r", ":", " ", "1", "0", "\n">>
    \o <<"D", "r", "a", "w", "i", "n", "g", " ", "C", "i", "r", "c", "l", "e", " ", "w", "i", "t", "h", " ", "r", "a", "d", "i", "u", "s", ":", " ", "8", "\n">>

IsPrefix(s, t) == Len(s) <= Len(t) /\ SubSeq(t, 1, Len(s)) = s

\* C1: when no allocation fails, the driver terminates, with exit code 0 and
\* with exactly the two lines "Drawing Rect with perimeter: 10" and "Drawing
\* Circle with radius: 8" on standard output in this order; at every moment
\* before that, the output is a prefix of these two lines.
C1_DriverOutput ==
    /\ [](~AllocationFailed => IsPrefix(stdout, ExpectedOutput))
    /\ [](status.state = "exited" /\ ~AllocationFailed
             => status.code = 0 /\ stdout = ExpectedOutput)
    /\ <>(AllocationFailed \/ status.state = "exited")

C1_Witness ==
    /\ status.state = "exited"
    /\ ~AllocationFailed
    /\ stdout = ExpectedOutput

\* C2: when no allocation fails, the i-th line of output is in the Rect format
\* exactly when the i-th figure passed to call_stuff was built by rect_new, and
\* in the Circle format exactly when it was built by circle_new; every call of
\* call_stuff writes exactly one line.
C2_Dispatch ==
    ~AllocationFailed =>
        LET lines == Lines(stdout)
        IN  /\ Len(lines) \in {Len(Draws), Len(Draws) + 1}
            /\ Quiescent => Len(lines) = Len(Draws)
            /\ stdout = << >> \/ stdout[Len(stdout)] = "\n"
            /\ \A i \in 1..Len(Draws) :
                  /\ Draws[i].arg \in Instances
                  /\ Draws[i].out = lines[i] \o Newline
                  /\ IsRectLine(lines[i]) <=> Birth(Draws[i].arg).op = "rect_new"
                  /\ IsCircleLine(lines[i]) <=> Birth(Draws[i].arg).op = "circle_new"

C2_Witness ==
    /\ ~AllocationFailed
    /\ Quiescent
    /\ \E i, j \in 1..Len(Draws) :
          /\ i < j
          /\ Birth(Draws[i].arg).op = "circle_new"
          /\ Birth(Draws[j].arg).op = "rect_new"

\* C3: from the return of its constructor on, the draw slot of every instance
\* rect_new returned holds draw_rect and the draw slot of every instance
\* circle_new returned holds draw_circle.
C3_Pairing ==
    \A p \in Instances :
        /\ Birth(p).op = "rect_new" => FigureDraw(heap, p) = "draw_rect"
        /\ Birth(p).op = "circle_new" => FigureDraw(heap, p) = "draw_circle"

C3_Witness ==
    /\ \E p, q \in Instances : Birth(p).op = "rect_new" /\ Birth(q).op = "circle_new"
    /\ \E i \in 1..Len(Draws) : Draws[i].arg \in Instances

\* C4: a call of call_stuff on the instance rect_new(p) returned writes exactly
\* the line "Drawing Rect with perimeter: p", p in decimal.
C4_RectLine ==
    \A i \in 1..Len(Draws) :
        LET d == Draws[i]
        IN  d.arg \in Instances /\ Birth(d.arg).op = "rect_new"
               => d.out = RectFormat \o Numeral(Birth(d.arg).arg) \o Newline

C4_Witness ==
    \E i \in 1..Len(Draws) :
        /\ Draws[i].arg \in Instances
        /\ Birth(Draws[i].arg).op = "rect_new"
        /\ Birth(Draws[i].arg).arg = INT_MIN

\* C5: a call of call_stuff on the instance circle_new(r) returned writes
\* exactly the line "Drawing Circle with radius: r", r in decimal.
C5_CircleLine ==
    \A i \in 1..Len(Draws) :
        LET d == Draws[i]
        IN  d.arg \in Instances /\ Birth(d.arg).op = "circle_new"
               => d.out = CircleFormat \o Numeral(Birth(d.arg).arg) \o Newline

C5_Witness ==
    \E i \in 1..Len(Draws) :
        /\ Draws[i].arg \in Instances
        /\ Birth(Draws[i].arg).op = "circle_new"
        /\ Birth(Draws[i].arg).arg = INT_MAX

C10_Immutable ==
    [][/\ \A p \in Instances : heap'[p] = heap[p]
       /\ rect_vtable' = rect_vtable
       /\ circle_vtable' = circle_vtable]_vars

C10_Witness ==
    \E i, j, k \in 1..Len(log) :
        /\ i < j /\ j < k
        /\ IsCtor(log[i]) /\ log[i].ret # NULL
        /\ IsDraw(log[j]) /\ log[j].arg = log[i].ret
        /\ IsCtor(log[k]) /\ log[k].ret # NULL

\* A constructor that has just received NULL from malloc.
NullIn(f, name, l) ==
    /\ Running(f, l)
    /\ Top.locals[name] = NULL

\* The next step is either the trap or the store through the null pointer.
StoresThroughNull(field, v, l) ==
    \/ status'.state = "signalled"
    \/ /\ status' = status
       /\ Len(stack') = Len(stack)
       /\ stack'[Len(stack')].line = l
       /\ NULL \in DOMAIN heap'
       /\ field \in DOMAIN heap'[NULL]
       /\ heap'[NULL][field] = v

\* C8: allocation failure is not checked.  A constructor whose malloc returned
\* NULL goes on to store the attribute and then the draw slot through the null
\* pointer (or is killed doing so), which is undefined behaviour; a constructor
\* returns NULL only after that, never as a report of the failure; and the only
\* exit the driver has is exit code 0.
C8_AllocationUnchecked ==
    [][/\ NullIn("rect_new", "rect", 81)
            => ub' /\ StoresThroughNull("member", Top.locals["perimeter"], 82)
       /\ NullIn("rect_new", "rect", 82)
            => ub' /\ StoresThroughNull("base", Figure(FigureVTable("draw_rect")), 87)
       /\ NullIn("circle_new", "circle", 92)
            => ub' /\ StoresThroughNull("member", Top.locals["radius"], 93)
       /\ NullIn("circle_new", "circle", 93)
            => ub' /\ StoresThroughNull("base", Figure(FigureVTable("draw_circle")), 94)
       /\ \A i \in 1..Len(log') : IsCtor(log'[i]) /\ log'[i].ret = NULL => ub'
       /\ status'.state \in {"running", "exited", "signalled"}
       /\ status'.state = "exited" => status'.code = 0]_vars

C8_Witness ==
    /\ ub
    /\ status.state = "running"
    /\ NULL \in DOMAIN heap
    /\ DOMAIN heap[NULL] = {"member", "base"}
    /\ \E i \in 1..Len(log) : IsCtor(log[i]) /\ log[i].ret = NULL

\* The events of the driver in order, from the first to the n-th.
DriverEvents(n) ==
    /\ Len(log) >= n
    /\ n >= 1 => log[1].op = "rect_new" /\ log[1].arg = 10
    /\ n >= 2 => log[2].op = "call_stuff" /\ log[2].arg = log[1].ret
    /\ n >= 3 => log[3].op = "circle_new" /\ log[3].arg = 8
    /\ n >= 4 => log[4].op = "call_stuff" /\ log[4].arg = log[3].ret

Lifecycle ==
    /\ Len(log) <= 4
    /\ DriverEvents(Len(log))
    /\ status.state = "exited" =>
          /\ Len(log) = 4
          /\ ~ub => /\ log[1].ret \in DOMAIN heap
                    /\ log[3].ret \in DOMAIN heap
                    /\ log[1].ret # log[3].ret
                    /\ Len(Lines(stdout)) = 2

\* C9: in the driver the Rect is constructed, then drawn, then the Circle is
\* constructed, then drawn; each is drawn exactly once; nothing allocated is
\* ever released, so both instances are still allocated when main returns.
C9_Lifecycle ==
    [][Lifecycle' /\ DOMAIN heap \subseteq DOMAIN heap']_vars

C9_Witness ==
    /\ status.state = "exited"
    /\ ~ub
    /\ Len(log) = 4
    /\ {log[1].ret, log[3].ret} \subseteq DOMAIN heap

====
